---------------------------- MODULE Spec2Model ----------------------------
(***************************************************************************)
(* A model of the enclave side of sgx-smart-contract-demo: the bytecode    *)
(* validator, the interpreter with its gas meter (contract_verifier.cpp)   *)
(* and the execution-proof calls (enclave.cpp).                            *)
(*                                                                         *)
(* Bytes are 0..255.  A 64-bit word (uint64_t) is kept as the tuple of its *)
(* 8 little-endian bytes, which is exactly what memcpy reads from the code *)
(* and writes to memory; arithmetic is done digit by digit, modulo 2^64.   *)
(***************************************************************************)
EXTENDS Integers, Sequences, FiniteSets, TLC

(***************************************************************************)
(* Opcodes (enclave.h, contract_opcode_t).                                 *)
(***************************************************************************)
OP_NOP == 0
OP_PUSH == 1
OP_POP == 2
OP_ADD == 3
OP_SUB == 4
OP_MUL == 5
OP_DIV == 6
OP_MOD == 7
OP_AND == 8
OP_OR == 9
OP_XOR == 10
OP_NOT == 11
OP_EQ == 12
OP_LT == 13
OP_GT == 14
OP_JMP == 15
OP_JMPIF == 16
OP_CALL == 17
OP_RET == 18
OP_LOAD == 19
OP_STORE == 20
OP_HASH == 21
OP_VERIFY == 22
OP_HALT == 255

\* the byte values that are enumerators of contract_opcode_t
KnownOpcodes == (0..22) \cup {OP_HALT}

(***************************************************************************)
(* Program constants.                                                      *)
(***************************************************************************)
MAX_CONTRACT_SIZE == 1048576
STACK_SLOTS == 256
MEMORY_SIZE == 4096

(***************************************************************************)
(* 64-bit words as 8 little-endian bytes.                                  *)
(***************************************************************************)
Byte == 0..255
WordIdx == 1..8
ZeroWord == <<0, 0, 0, 0, 0, 0, 0, 0>>

\* the word of a number below 2^16
SmallWord(n) == <<n % 256, (n \div 256) % 256, 0, 0, 0, 0, 0, 0>>

\* the value of a word when it is below 2^24, and -1 ("too large") otherwise
WordToNat(w) ==
    IF \A i \in 4..8 : w[i] = 0
    THEN w[1] + 256 * w[2] + 65536 * w[3]
    ELSE -1

RECURSIVE AddC(_, _, _, _)
\* digits i..8 of a + b + c (c the carry into digit i)
AddC(a, b, i, c) ==
    IF i > 8 THEN <<>>
    ELSE LET s == a[i] + b[i] + c
         IN  <<s % 256>> \o AddC(a, b, i + 1, s \div 256)

\* the 8-tuple of a function on 1..8
Tup8(f) == <<f[1], f[2], f[3], f[4], f[5], f[6], f[7], f[8]>>

WNot(a) == Tup8([i \in WordIdx |-> 255 - a[i]])
WAdd(a, b) == AddC(a, b, 1, 0)
\* a - b = a + ~b + 1 modulo 2^64
WSub(a, b) == AddC(a, WNot(b), 1, 1)

RECURSIVE ColSum(_, _, _, _)
\* sum of a[i] * b[k + 1 - i] for i in 1..j
ColSum(a, b, k, j) ==
    IF j = 0 THEN 0 ELSE a[j] * b[k + 1 - j] + ColSum(a, b, k, j - 1)

RECURSIVE MulC(_, _, _, _)
MulC(a, b, k, c) ==
    IF k > 8 THEN <<>>
    ELSE LET s == c + ColSum(a, b, k, k)
         IN  <<s % 256>> \o MulC(a, b, k + 1, s \div 256)

WMul(a, b) == MulC(a, b, 1, 0)

RECURSIVE LtFrom(_, _, _)
\* unsigned a < b, deciding from digit i downwards
LtFrom(a, b, i) ==
    IF i = 0 THEN FALSE
    ELSE IF a[i] # b[i] THEN a[i] < b[i]
    ELSE LtFrom(a, b, i - 1)

WLt(a, b) == LtFrom(a, b, 8)
WGt(a, b) == LtFrom(b, a, 8)

RECURSIVE BitOp(_, _, _, _)
\* bitwise operation on two bytes, n bits left; op is "and", "or" or "xor"
BitOp(op, x, y, n) ==
    IF n = 0 THEN 0
    ELSE LET bx == x % 2
             by == y % 2
             r  == CASE op = "and" -> bx * by
                    [] op = "or"  -> IF bx + by > 0 THEN 1 ELSE 0
                    [] OTHER      -> (bx + by) % 2
         IN  r + 2 * BitOp(op, x \div 2, y \div 2, n - 1)

WAnd(a, b) == Tup8([i \in WordIdx |-> BitOp("and", a[i], b[i], 8)])
WOr(a, b) == Tup8([i \in WordIdx |-> BitOp("or", a[i], b[i], 8)])
WXor(a, b) == Tup8([i \in WordIdx |-> BitOp("xor", a[i], b[i], 8)])

Pow2(n) == CASE n = 0 -> 1 [] n = 1 -> 2 [] n = 2 -> 4 [] n = 3 -> 8
             [] n = 4 -> 16 [] n = 5 -> 32 [] n = 6 -> 64 [] OTHER -> 128

\* bit i (0..63) of a word
WBit(a, i) == (a[(i \div 8) + 1] \div Pow2(i % 8)) % 2

RECURSIVE DivLoop(_, _, _, _, _)
\* restoring division, bit i downwards: <<quotient, remainder>>
DivLoop(a, b, i, q, r) ==
    IF i < 0 THEN <<q, r>>
    ELSE LET top == r[8] >= 128
             r2  == AddC(r, r, 1, WBit(a, i))
             ge  == top \/ ~WLt(r2, b)
             r3  == IF ge THEN WSub(r2, b) ELSE r2
             q2  == AddC(q, q, 1, IF ge THEN 1 ELSE 0)
         IN  \* the test forces q2 now, so that no chain of pending digits builds up
             IF q2[1] >= 0 THEN DivLoop(a, b, i - 1, q2, r3) ELSE <<q, r>>

\* unsigned a / b and a % b for b # 0
WDiv(a, b) == DivLoop(a, b, 63, ZeroWord, ZeroWord)[1]
WMod(a, b) == DivLoop(a, b, 63, ZeroWord, ZeroWord)[2]

(***************************************************************************)
(* Status codes (sgx_status_t; enclave.h for the contract codes).          *)
(***************************************************************************)
SGX_SUCCESS == "SGX_SUCCESS"
SGX_ERROR_INVALID_PARAMETER == "SGX_ERROR_INVALID_PARAMETER"
SGX_ERROR_CONTRACT_INVALID == "SGX_ERROR_CONTRACT_INVALID"
SGX_ERROR_CONTRACT_EXECUTION_FAILED == "SGX_ERROR_CONTRACT_EXECUTION_FAILED"
SGX_ERROR_INSUFFICIENT_GAS == "SGX_ERROR_INSUFFICIENT_GAS"

(***************************************************************************)
(* Execution states (contract_execution_state_t).                          *)
(***************************************************************************)
CONTRACT_STATE_INIT == "INIT"
CONTRACT_STATE_RUNNING == "RUNNING"
CONTRACT_STATE_COMPLETED == "COMPLETED"
CONTRACT_STATE_ERROR == "ERROR"
CONTRACT_STATE_OUT_OF_GAS == "OUT_OF_GAS"

(***************************************************************************)
(* The gas table.  GAS_COSTS is an array with designated initialisers: its *)
(* size is the largest index plus one, 256 ([OP_HALT] = 0 with OP_HALT =   *)
(* 0xFF), and every element that is not listed is zero.                    *)
(***************************************************************************)
GAS_COSTS ==
    [op \in 0..255 |->
        CASE op = OP_NOP  -> 1
          [] op = OP_PUSH -> 3
          [] op = OP_POP  -> 2
          [] op = OP_ADD  -> 3
          [] op = OP_SUB  -> 3
          [] op = OP_MUL  -> 5
          [] op = OP_HALT -> 0
          [] OTHER        -> 0]

\* mutant of get_opcode_gas_cost: every opcode is free
get_opcode_gas_cost_free(opcode) == 0

get_opcode_gas_cost(opcode) ==
    IF opcode < 256 THEN GAS_COSTS[opcode] ELSE 1

\* mutants of check_gas: the cost left out of the comparison; < for <=
check_gas_without_cost(used, limit, gas_cost) == used <= limit
check_gas_strict(used, limit, gas_cost) == used + gas_cost < limit

check_gas(used, limit, gas_cost) == used + gas_cost <= limit

\* the new gas_used
consume_gas(used, limit, gas_cost) ==
    IF ~check_gas(used, limit, gas_cost) THEN used ELSE used + gas_cost

(***************************************************************************)
(* The validator.  Every byte of the code is looked at as an opcode; the   *)
(* operand-skipping branches sit under `default', where the opcode is none *)
(* of the enumerators, so they are never taken.                            *)
(***************************************************************************)
RECURSIVE ScanFrom(_, _)
ScanFrom(code, i) ==
    IF i >= Len(code) THEN TRUE
    ELSE LET opcode == code[i + 1]
         IN  IF opcode \in KnownOpcodes THEN ScanFrom(code, i + 1)
             ELSE IF opcode = OP_PUSH /\ i + 8 < Len(code)
                  THEN ScanFrom(code, i + 9)
             ELSE IF opcode = OP_JMP \/ opcode = OP_JMPIF
                  THEN ScanFrom(code, IF i + 4 < Len(code) THEN i + 5 ELSE i + 1)
             ELSE FALSE

validate_contract_code(code) ==
    IF Len(code) = 0 \/ Len(code) > MAX_CONTRACT_SIZE
        THEN SGX_ERROR_CONTRACT_INVALID
    ELSE IF ~ScanFrom(code, 0) THEN SGX_ERROR_CONTRACT_INVALID
    ELSE IF code[Len(code)] # OP_HALT THEN SGX_ERROR_CONTRACT_INVALID
    ELSE SGX_SUCCESS

(***************************************************************************)
(* The operand stack.  vm_stack_t is data[256] and top; the model keeps    *)
(* the live slots data[0..top) as a sequence, so top = Len(stack).         *)
(***************************************************************************)
stack_is_empty(stack) == Len(stack) = 0

\* mutant of stack_is_full: > for >=
stack_is_full_off_by_one(stack) == Len(stack) > STACK_SLOTS

stack_is_full(stack) == Len(stack) >= STACK_SLOTS

stack_push(stack, value) ==
    IF stack_is_full(stack)
    THEN [ret |-> SGX_ERROR_INVALID_PARAMETER, stack |-> stack]
    ELSE [ret |-> SGX_SUCCESS, stack |-> Append(stack, value)]

stack_pop(stack) ==
    IF stack_is_empty(stack)
    THEN [ret |-> SGX_ERROR_INVALID_PARAMETER, stack |-> stack, value |-> ZeroWord]
    ELSE [ret |-> SGX_SUCCESS, stack |-> SubSeq(stack, 1, Len(stack) - 1),
          value |-> stack[Len(stack)]]

(***************************************************************************)
(* Memory: 4096 bytes, zeroed at the start of an execution.  The model     *)
(* keeps the bytes that are not zero, as a function on their addresses.    *)
(***************************************************************************)
ZeroMemory == [a \in {} |-> 0]

MemByte(mem, a) == IF a \in DOMAIN mem THEN mem[a] ELSE 0

\* memcpy(&result, &memory[a], 8)
MemRead8(mem, a) == Tup8([i \in WordIdx |-> MemByte(mem, a + i - 1)])

\* memcpy(&memory[a], &b, 8)
MemWrite8(mem, a, w) ==
    LET span == {a + i - 1 : i \in WordIdx}
        dom  == (DOMAIN mem \ span) \cup {a + i - 1 : i \in {j \in WordIdx : w[j] # 0}}
    IN  [x \in dom |-> IF x \in span THEN w[x - a + 1] ELSE mem[x]]

\* the bytes memory[a .. a + n)
MemBytes(mem, a, n) == [i \in 1..n |-> MemByte(mem, a + i - 1)]

(***************************************************************************)
(* execute_instruction.  The result is the record of what the call leaves: *)
(* its return status and the context fields it may change.                 *)
(***************************************************************************)
Fail == SGX_ERROR_CONTRACT_EXECUTION_FAILED

Outcome(ret, pc, stack, memory, state, oob) ==
    [ret |-> ret, pc |-> pc, stack |-> stack, memory |-> memory,
     state |-> state, oob |-> oob]

BoolWord(c) == IF c THEN SmallWord(1) ELSE ZeroWord

\* mutant of BinaryResult: the operands taken in the other order
BinaryResultSwapped(opcode, a, b) ==
    CASE opcode = OP_ADD -> WAdd(b, a)
      [] opcode = OP_SUB -> WSub(b, a)
      [] opcode = OP_MUL -> WMul(b, a)
      [] OTHER -> ZeroWord

\* the value a two-operand opcode pushes for operands a (below) and b (top)
BinaryResult(opcode, a, b) ==
    CASE opcode = OP_ADD -> WAdd(a, b)
      [] opcode = OP_SUB -> WSub(a, b)
      [] opcode = OP_MUL -> WMul(a, b)
      [] opcode = OP_DIV -> WDiv(a, b)
      [] opcode = OP_MOD -> WMod(a, b)
      [] opcode = OP_AND -> WAnd(a, b)
      [] opcode = OP_OR  -> WOr(a, b)
      [] opcode = OP_XOR -> WXor(a, b)
      [] opcode = OP_EQ  -> BoolWord(a = b)
      [] opcode = OP_LT  -> BoolWord(WLt(a, b))
      [] opcode = OP_GT  -> BoolWord(WGt(a, b))

\* pop b, pop a, push the result; OP_DIV and OP_MOD fail on b = 0 after the
\* first pop
BinaryOp(pc, stack, memory, state, opcode) ==
    LET pb == stack_pop(stack)
        pa == stack_pop(pb.stack)
        ps == stack_push(pa.stack, BinaryResult(opcode, pa.value, pb.value))
    IN  IF pb.ret # SGX_SUCCESS
            THEN Outcome(pb.ret, pc, pb.stack, memory, state, FALSE)
        ELSE IF opcode \in {OP_DIV, OP_MOD} /\ pb.value = ZeroWord
            THEN Outcome(Fail, pc, pb.stack, memory, state, FALSE)
        ELSE IF pa.ret # SGX_SUCCESS
            THEN Outcome(pa.ret, pc, pa.stack, memory, state, FALSE)
        ELSE Outcome(ps.ret, pc, ps.stack, memory, state, FALSE)

\* a number that is at least every code size: the value of a jump operand
\* that does not fit the model's integers
HugeTarget == 16777216

\* `result' after memcpy(&result, &code[pc + 1], 4): the 4 operand bytes,
\* little-endian, in the low half of the uninitialised local; hi is what the
\* high half happens to hold
JumpResult(code, pc, hi) ==
    IF hi # 0 \/ code[pc + 5] # 0 THEN HugeTarget
    ELSE code[pc + 2] + 256 * code[pc + 3] + 65536 * code[pc + 4]

\* the jump itself, shared by JMP and a taken JMPIF
Jump(code, pc, stack, memory, state, hi) ==
    IF pc + 4 >= Len(code)
        THEN Outcome(Fail, pc, stack, memory, state, FALSE)
    ELSE IF JumpResult(code, pc, hi) >= Len(code)
        THEN Outcome(Fail, pc, stack, memory, state, FALSE)
    \* pc = result - 1, and the main loop adds 1: the model keeps the -1
    ELSE Outcome(SGX_SUCCESS, JumpResult(code, pc, hi) - 1, stack, memory,
                 state, FALSE)

\* the first 8 bytes of SHA-256 of a byte string, as a word.  SHA-256 is
\* not computed: a fixed function of the bytes stands for it.
RECURSIVE Mix(_, _, _)
Mix(data, i, k) ==
    IF i > Len(data) THEN (31 * k + Len(data)) % 256
    ELSE (Mix(data, i + 1, k) * 17 + data[i] + k) % 256

HashLo64(data) == Tup8([k \in WordIdx |-> Mix(data, 1, k)])

\* what an access outside memory[] may read
GarbageWords == <<ZeroWord, SmallWord(1)>>

execute_instruction(code, pc, stack, memory, state, opcode, g) ==
    CASE opcode = OP_NOP -> Outcome(SGX_SUCCESS, pc, stack, memory, state, FALSE)
      [] opcode = OP_PUSH ->
            IF pc + 8 >= Len(code)
            THEN Outcome(Fail, pc, stack, memory, state, FALSE)
            ELSE LET ps == stack_push(stack, SubSeq(code, pc + 2, pc + 9))
                 IN  Outcome(ps.ret, pc + 8, ps.stack, memory, state, FALSE)
      [] opcode = OP_POP ->
            LET pp == stack_pop(stack)
            IN  Outcome(pp.ret, pc, pp.stack, memory, state, FALSE)
      [] opcode = OP_ADD -> BinaryOp(pc, stack, memory, state, opcode)
      [] opcode = OP_SUB -> BinaryOp(pc, stack, memory, state, opcode)
      [] opcode = OP_MUL -> BinaryOp(pc, stack, memory, state, opcode)
      [] opcode = OP_DIV -> BinaryOp(pc, stack, memory, state, opcode)
      [] opcode = OP_MOD -> BinaryOp(pc, stack, memory, state, opcode)
      [] opcode = OP_AND -> BinaryOp(pc, stack, memory, state, opcode)
      [] opcode = OP_OR  -> BinaryOp(pc, stack, memory, state, opcode)
      [] opcode = OP_XOR -> BinaryOp(pc, stack, memory, state, opcode)
      [] opcode = OP_NOT ->
            LET pa == stack_pop(stack)
                ps == stack_push(pa.stack, WNot(pa.value))
            IN  IF pa.ret # SGX_SUCCESS
                THEN Outcome(pa.ret, pc, pa.stack, memory, state, FALSE)
                ELSE Outcome(ps.ret, pc, ps.stack, memory, state, FALSE)
      [] opcode = OP_EQ -> BinaryOp(pc, stack, memory, state, opcode)
      [] opcode = OP_LT -> BinaryOp(pc, stack, memory, state, opcode)
      [] opcode = OP_GT -> BinaryOp(pc, stack, memory, state, opcode)
      [] opcode = OP_JMP -> Jump(code, pc, stack, memory, state, g)
      [] opcode = OP_JMPIF ->
            LET pa == stack_pop(stack)
            IN  IF pa.ret # SGX_SUCCESS
                    THEN Outcome(pa.ret, pc, pa.stack, memory, state, FALSE)
                ELSE IF pa.value # ZeroWord
                    THEN Jump(code, pc, pa.stack, memory, state, g)
                ELSE Outcome(SGX_SUCCESS, pc + 4, pa.stack, memory, state, FALSE)
      [] opcode = OP_LOAD ->
            LET pa == stack_pop(stack)
                a  == WordToNat(pa.value)
            IN  IF pa.ret # SGX_SUCCESS
                    THEN Outcome(pa.ret, pc, pa.stack, memory, state, FALSE)
                ELSE IF a = -1 \/ a >= MEMORY_SIZE - 8
                    THEN Outcome(Fail, pc, pa.stack, memory, state, FALSE)
                ELSE LET ps == stack_push(pa.stack, MemRead8(memory, a))
                     IN  Outcome(ps.ret, pc, ps.stack, memory, state, FALSE)
      [] opcode = OP_STORE ->
            LET pb == stack_pop(stack)
                pa == stack_pop(pb.stack)
                a  == WordToNat(pa.value)
            IN  IF pb.ret # SGX_SUCCESS
                    THEN Outcome(pb.ret, pc, pb.stack, memory, state, FALSE)
                ELSE IF pa.ret # SGX_SUCCESS
                    THEN Outcome(pa.ret, pc, pa.stack, memory, state, FALSE)
                ELSE IF a = -1 \/ a >= MEMORY_SIZE - 8
                    THEN Outcome(Fail, pc, pa.stack, memory, state, FALSE)
                ELSE Outcome(SGX_SUCCESS, pc, pa.stack,
                             MemWrite8(memory, a, pb.value), state, FALSE)
      [] opcode = OP_HASH ->
            LET pa  == stack_pop(stack)      \* the length
                pb  == stack_pop(pa.stack)   \* the address
                sum == WordToNat(WAdd(pb.value, pa.value))
                adr == WordToNat(pb.value)
                len == WordToNat(pa.value)
            IN  IF pa.ret # SGX_SUCCESS
                    THEN Outcome(pa.ret, pc, pa.stack, memory, state, FALSE)
                ELSE IF pb.ret # SGX_SUCCESS
                    THEN Outcome(pb.ret, pc, pb.stack, memory, state, FALSE)
                ELSE IF sum = -1 \/ sum > MEMORY_SIZE
                    THEN Outcome(Fail, pc, pb.stack, memory, state, FALSE)
                ELSE IF adr = -1 \/ len = -1 \/ adr + len > MEMORY_SIZE
                    \* the 64-bit sum wrapped: the read starts or ends outside
                    THEN LET ps == stack_push(pb.stack, GarbageWords[g + 1])
                         IN  Outcome(ps.ret, pc, ps.stack, memory, state, TRUE)
                ELSE LET ps == stack_push(pb.stack,
                                          HashLo64(MemBytes(memory, adr, len)))
                     IN  Outcome(ps.ret, pc, ps.stack, memory, state, FALSE)
      [] opcode = OP_VERIFY ->
            LET pa == stack_pop(stack)
                ps == stack_push(pa.stack, SmallWord(1))
            IN  IF pa.ret # SGX_SUCCESS
                THEN Outcome(pa.ret, pc, pa.stack, memory, state, FALSE)
                ELSE Outcome(ps.ret, pc, ps.stack, memory, state, FALSE)
      [] opcode = OP_HALT ->
            Outcome(SGX_SUCCESS, pc, stack, memory, CONTRACT_STATE_COMPLETED, FALSE)
      [] OTHER -> Outcome(Fail, pc, stack, memory, state, FALSE)

(***************************************************************************)
(* compute_execution_hash.  SHA-256 is kept symbolic: a digest is the pair *)
(* of a tag and the message, so two digests are equal exactly when their   *)
(* messages are.  The message of the execution hash is what is fed to      *)
(* sgx_sha256_update, in order: a digest is one item of it, and the bytes  *)
(* of the result and of gas_used, fed one after the other with no length,  *)
(* are one run of bytes.                                                   *)
(***************************************************************************)
Sha256(msg) == <<"SHA256", msg>>

\* sizeof(gas_used) bytes of gas_used, as stored (little-endian)
LE64(n) == SmallWord(n)

\* 32 zero bytes, what memset leaves in a hash that was never computed
NilHash == <<"ZERO", <<>>>>

compute_execution_hash(code, input, result, used) ==
    Sha256(<<Sha256(code)>>
           \o (IF Len(input) > 0 THEN <<Sha256(input)>> ELSE <<>>)
           \o <<(IF Len(result) > 0 THEN result ELSE <<>>) \o LE64(used)>>)

(***************************************************************************)
(* The inputs of the model: programs, inputs and gas limits.               *)
(***************************************************************************)
\* bounds of the model
MaxInstrs == 3
MaxGas == 11
BigGas == 800
MaxCalls == 1

Push(v) == <<OP_PUSH>> \o SmallWord(v)
JmpTo(t) == <<OP_JMP, t % 256, t \div 256, 0, 0>>

\* the pieces programs are put together from: single bytes (0x20 is no
\* opcode) and whole instructions with their operand
Pieces ==
    { <<OP_NOP>>, <<OP_POP>>, <<OP_ADD>>, <<OP_DIV>>, <<OP_JMPIF>>, <<OP_CALL>>,
      <<OP_HALT>>, <<32>>, Push(0), Push(5), JmpTo(0), JmpTo(5) }

RECURSIVE Concat(_)
Concat(ps) == IF Len(ps) = 0 THEN <<>> ELSE Head(ps) \o Concat(Tail(ps))

\* spec.md section 8 and create_sample_contract: add-and-halt, div-by-zero;
\* and a PUSH whose operand runs up to the last byte of the code
Scenarios ==
    { Concat(<<Push(10), Push(20), <<OP_ADD>>, <<OP_HALT>>>>),
      Concat(<<Push(5), Push(0), <<OP_DIV>>, <<OP_HALT>>>>),
      <<OP_PUSH, 0, 0, 0, 0, 0, 0, 0, OP_HALT>> }

\* programs that reach LOAD, STORE and HASH at the edges of memory.  The
\* validator takes every byte for an opcode, so an address such as 4088
\* (F8 0F) cannot be an operand: it is computed, 4095 - 7 (FF 0F, 07).
PushWord(w) == <<OP_PUSH>> \o w
AllOnes == WNot(ZeroWord)
PushAddr(a) == Concat(<<Push(4095), Push(4095 - a), <<OP_SUB>>>>)
\* 2^64 - 8
PushMinus8 == Concat(<<Push(7), <<OP_NOT>>>>)
EdgeAddrs == {4087, 4088, 4089}

MemoryPrograms ==
    {Concat(<<PushAddr(a), <<OP_LOAD>>, <<OP_HALT>>>>) : a \in EdgeAddrs}
    \cup {Concat(<<PushAddr(a), Push(5), <<OP_STORE>>, <<OP_HALT>>>>) : a \in EdgeAddrs}
    \cup {Concat(<<Push(0), Push(5), <<OP_STORE>>, Push(0), <<OP_LOAD>>, <<OP_HALT>>>>),
          Concat(<<PushMinus8, <<OP_LOAD>>, <<OP_HALT>>>>),
          Concat(<<PushMinus8, Push(5), <<OP_STORE>>, <<OP_HALT>>>>),
          Concat(<<Push(0), Push(8), <<OP_HASH>>, <<OP_HALT>>>>),
          Concat(<<PushAddr(4088), Push(8), <<OP_HASH>>, <<OP_HALT>>>>),
          Concat(<<PushAddr(4089), Push(8), <<OP_HASH>>, <<OP_HALT>>>>),
          Concat(<<PushMinus8, Push(16), <<OP_HASH>>, <<OP_HALT>>>>),
          Concat(<<Push(1), PushWord(AllOnes), <<OP_HASH>>, <<OP_HALT>>>>)}

\* sums, differences and products that leave the 64 bits: (2^64 - 1) + 1,
\* 0 - 1, 5 - 10 and (2^64 - 1) * 2
ArithmeticPrograms ==
    {Concat(<<Push(0), <<OP_NOT>>, Push(1), <<OP_ADD>>, <<OP_HALT>>>>),
     Concat(<<Push(0), Push(1), <<OP_SUB>>, <<OP_HALT>>>>),
     Concat(<<Push(5), Push(10), <<OP_SUB>>, <<OP_HALT>>>>),
     Concat(<<Push(0), <<OP_NOT>>, Push(2), <<OP_MUL>>, <<OP_HALT>>>>)}

\* a well-formed program whose operand holds a byte that is no opcode
\* SGXSmartContractApp::create_sample_contract: PUSH 10, PUSH 20, ADD and
\* the byte 0x18
create_sample_contract ==
    Concat(<<Push(10), Push(20), <<OP_ADD>>, <<24>>>>)

ValidatorPrograms ==
    {Concat(<<Push(32), <<OP_HALT>>>>), create_sample_contract}

Programs ==
    {<<>>} \cup Scenarios \cup MemoryPrograms \cup ValidatorPrograms
    \cup ArithmeticPrograms
    \cup UNION {{Concat(ps) : ps \in [1..n -> Pieces]} : n \in 1..MaxInstrs}

Inputs == {<<>>, <<1, 2, 3, 4>>}

GasLimits == (0..MaxGas) \cup {BigGas}

\* what the uninitialised high half of `result' may hold (0, or not 0), and
\* the index of what a read outside memory[] yields
GarbageChoices == {0, 1}

(***************************************************************************)
(* State.                                                                  *)
(***************************************************************************)
VARIABLES
    initialized,        \* verifier->initialized
    execution_counter,  \* verifier->execution_counter
    phase,              \* where execute_contract is: idle, loop, returned
    ret,                \* its return status
    code,               \* context->contract_code[0 .. code_size)
    input,              \* context->input_data[0 .. input_size)
    gas_limit,
    gas_used,
    pc,
    state,
    stack,
    memory,
    result,             \* context->result_data[0 .. result_size)
    execution_hash,
    oob,                \* an instruction has read outside memory[]
    master_key,         \* g_master_key and g_verifier.master_key
    host,               \* what the last boundary call handed to the host
    audit,              \* the ocall_audit_log records of the last execution
    input_data_null,    \* the input_data argument of the last call was NULL
    proof_phase,        \* none, generated, verified
    proof_buffer,       \* the execution_proof_t the host holds, or NoProof
    proof_ret,          \* the status of the last proof call
    expected_hash,      \* the execution_hash argument of the verification
    is_valid,           \* *is_valid of the verification
    generated,          \* the last proof as the enclave wrote it
    issued_keys,        \* the public keys of the proofs generated so far
    seal_phase,         \* none, sealed, unsealed
    seal_plain,         \* the plaintext of the last ecall_seal_data
    sealed,             \* the sealed blob the host holds
    seal_ret,           \* the status of the last seal or unseal call
    plain_out,          \* the plaintext buffer of the host after unseal
    plain_size,         \* *plaintext_size of the host after unseal
    sealed_capacity,    \* *sealed_size as the host passed it to seal
    plain_capacity,     \* *plaintext_size as the host passed it to unseal
    outcall             \* the last storage outcall of the enclave

ctx == <<code, input, gas_limit, gas_used, pc, state, stack, memory, result,
         execution_hash, oob>>
vmvars == <<initialized, execution_counter, phase, ret, code, input, gas_limit,
            gas_used, pc, state, stack, memory, result, execution_hash, oob,
            master_key, host, audit, input_data_null>>
proofvars == <<proof_phase, proof_buffer, proof_ret, expected_hash, is_valid,
              generated, issued_keys>>
sealvars == <<seal_phase, seal_plain, sealed, seal_ret, plain_out, plain_size,
             sealed_capacity, plain_capacity, outcall>>
\* the host application (SGXSmartContractApp) and its last operation
VARIABLES
    enclave_id,           \* 0, or the id sgx_create_enclave gave
    enclave_initialized,
    created,              \* how many enclaves sgx_create_enclave has made
    host_op               \* the operation that returned last

appvars == <<enclave_id, enclave_initialized, created, host_op>>

\* threads inside ecall_verify_contract_execution at the same time
VARIABLES
    tpc,                  \* where each thread is
    tmp,                  \* the execution_counter a thread has read
    local                 \* each thread's context, a local of the call

concvars == <<tpc, tmp, local>>

vars == <<vmvars, proofvars, sealvars, appvars, concvars>>

\* memset(&context, 0, sizeof(context)) in the caller
ZeroContext ==
    /\ code = <<>>
    /\ input = <<>>
    /\ gas_limit = 0
    /\ gas_used = 0
    /\ pc = 0
    /\ state = CONTRACT_STATE_INIT
    /\ stack = <<>>
    /\ memory = ZeroMemory
    /\ result = <<>>
    /\ execution_hash = NilHash
    /\ oob = FALSE

NoProof == "none"

\* g_master_key and g_verifier.master_key are zero until sgx_read_rand fills
\* them.  Random 128-bit values are told apart by the order in which they
\* were drawn: a draw gives a value that the buffer did not hold before.
NoKey == "zero"
ZeroKeys == [global |-> NoKey, verifier |-> NoKey]
sgx_read_rand(held) == IF held = "key1" THEN "key2" ELSE "key1"

\* the status and the out-parameters of a boundary call, as the host has
\* them after the call: written says whether *gas_used and *result_size
\* (with the result bytes) were assigned
HostOut(call, status, written, used, res) ==
    [call |-> call, ret |-> status, written |-> written, gas_used |-> used,
     result |-> res]

NoCall == HostOut("none", SGX_SUCCESS, FALSE, 0, <<>>)
\* ecall_verify_contract_execution has not returned yet
Pending == HostOut("execute", "pending", FALSE, 0, <<>>)

\* ecall_verify_contract_execution after execute_contract (lines 97-115)
EcallReturn(status, used, res) ==
    IF status # SGX_SUCCESS
    THEN HostOut("execute", status, FALSE, 0, <<>>)
    ELSE HostOut("execute", SGX_SUCCESS, TRUE, used, res)

AUDIT_STARTED == "Contract execution started"
AUDIT_COMPLETED == "Contract execution completed"

\* app_status_t (app.h, lines 19-26)
APP_SUCCESS == "APP_SUCCESS"
APP_ERROR_ENCLAVE_INIT == "APP_ERROR_ENCLAVE_INIT"
APP_ERROR_ENCLAVE_CALL == "APP_ERROR_ENCLAVE_CALL"
APP_ERROR_INVALID_PARAM == "APP_ERROR_INVALID_PARAM"

\* what a host operation leaves behind: its name, the app_status_t it
\* returned, the boundary calls it made, and whether the bytecode and the
\* input (or user data) it was given were empty
HostOp(op, status, ecalls, bytecode_empty, input_empty) ==
    [op |-> op, status |-> status, ecalls |-> ecalls,
     bytecode_empty |-> bytecode_empty, input_empty |-> input_empty]

NoOp == HostOp("none", APP_SUCCESS, <<>>, FALSE, FALSE)

\* the threads that may be inside the enclave at once
MaxThreads == 2
Threads == 1..MaxThreads

\* the context of a thread that has not built one
NoContext ==
    [code |-> <<>>, pc |-> 0, gas_used |-> 0, state |-> CONTRACT_STATE_INIT,
     stack |-> <<>>, memory |-> ZeroMemory, result |-> <<>>]

\* a size_t, as its two 32-bit halves
SizeT(high, low) == [hi |-> high, lo |-> low]

\* a sealed blob (sgx_sealed_data_t): the length of the encrypted text and
\* of the additional MAC text as the header gives them, the payload, the
\* tag, and whether all bytes of the blob reached the enclave
SealedData(enc_len, mac_len, payload, tag, whole) ==
    <<"sealed", enc_len, mac_len, payload, tag, whole>>
NoBlob == SealedData(0, 0, <<>>, <<>>, TRUE)

\* a storage outcall: its kind and the value it hands to the host
Outcall(kind, value) == [kind |-> kind, value |-> value]
NoOutcall == Outcall("none", <<>>)

Init ==
    /\ initialized = FALSE
    /\ execution_counter = 0
    /\ phase = "idle"
    /\ ret = SGX_SUCCESS
    /\ ZeroContext
    /\ master_key = ZeroKeys
    /\ host = NoCall
    /\ audit = <<>>
    /\ input_data_null = FALSE
    /\ proof_phase = "none"
    /\ proof_buffer = NoProof
    /\ proof_ret = SGX_SUCCESS
    /\ expected_hash = NilHash
    /\ is_valid = 0
    /\ generated = NoProof
    /\ issued_keys = {}
    /\ seal_phase = "none"
    /\ seal_plain = <<>>
    /\ sealed = NoBlob
    /\ seal_ret = SGX_SUCCESS
    /\ plain_out = <<>>
    /\ plain_size = SizeT(0, 0)
    /\ sealed_capacity = 0
    /\ plain_capacity = SizeT(0, 0)
    /\ outcall = NoOutcall
    /\ enclave_id = 0
    /\ enclave_initialized = FALSE
    /\ created = 0
    /\ host_op = NoOp
    /\ tpc = [t \in Threads |-> "outside"]
    /\ tmp = [t \in Threads |-> 0]
    /\ local = [t \in Threads |-> NoContext]

(***************************************************************************)
(* ecall_init_contract_verifier with init_contract_verifier.  A call on an *)
(* initialized verifier returns at once.  Otherwise g_master_key is drawn, *)
(* then init_contract_verifier zeroes the verifier and draws its master    *)
(* key.  Either sgx_read_rand may fail; initialize_enclave then destroys   *)
(* the enclave (sgx_utils.cpp, lines 29-33), and the next call finds the   *)
(* zeroed globals of a new one.                                            *)
(***************************************************************************)
\* mutant of AlreadyInitialized: the flag is not looked at
AlreadyInitializedIgnored(flag) == FALSE

\* if (g_verifier_initialized)
AlreadyInitialized(flag) == flag

InitVerifier ==
    /\ phase = "idle"
    /\ IF AlreadyInitialized(initialized)
       THEN /\ host' = HostOut("init", SGX_SUCCESS, FALSE, 0, <<>>)
            /\ UNCHANGED <<initialized, execution_counter, master_key>>
       ELSE \E rand_ok \in BOOLEAN, verifier_rand_ok \in BOOLEAN :
              IF rand_ok /\ verifier_rand_ok
              THEN /\ initialized' = TRUE
                   /\ execution_counter' = 0
                   /\ master_key' = [global |-> sgx_read_rand(master_key.global),
                                     verifier |-> sgx_read_rand(master_key.verifier)]
                   /\ host' = HostOut("init", SGX_SUCCESS, FALSE, 0, <<>>)
              ELSE /\ initialized' = FALSE
                   /\ execution_counter' = 0
                   /\ master_key' = ZeroKeys
                   /\ host' = HostOut("init", "SGX_ERROR_UNEXPECTED", FALSE, 0, <<>>)
    /\ UNCHANGED <<phase, ret, ctx, audit, input_data_null, proofvars, sealvars, appvars, concvars>>

(***************************************************************************)
(* execute_contract, entry (lines 119-145): the parameter check, the       *)
(* validation and the reset of the context, which the caller has zeroed    *)
(* and filled with the code, the input and the gas limit.                  *)
(***************************************************************************)
\* mutant of NotInitialized: the boundary call does not look at the flag
NotInitializedIgnored(flag) == FALSE

\* if (!g_verifier_initialized)
NotInitialized(flag) == ~flag

\* the boundary call returns before it builds a context when the verifier
\* is not initialized or a pointer is null: no gas limit is set then.
\* An empty input reaches the call as a buffer of length 0 or, from
\* SGXSmartContractApp::execute_contract, as a null pointer
NullChoices(in) == IF Len(in) = 0 THEN BOOLEAN ELSE {FALSE}

Call ==
    /\ phase = "idle"
    /\ execution_counter < MaxCalls
    /\ \E c \in Programs, in \in Inputs, gl \in GasLimits, malloc_ok \in BOOLEAN :
       \E null \in NullChoices(in) :
          /\ code' = c
          /\ input' = in
          /\ input_data_null' = null
          /\ gas_limit' = IF NotInitialized(initialized) \/ null THEN 0 ELSE gl
          /\ IF NotInitialized(initialized)
                THEN /\ ret' = SGX_ERROR_INVALID_PARAMETER
                     /\ phase' = "returned"
                     /\ state' = state
                     /\ host' = EcallReturn("SGX_ERROR_INVALID_STATE", 0, <<>>)
                     /\ audit' = <<>>
             ELSE IF null
                THEN /\ ret' = SGX_ERROR_INVALID_PARAMETER
                     /\ phase' = "returned"
                     /\ state' = state
                     /\ host' = EcallReturn(SGX_ERROR_INVALID_PARAMETER, 0, <<>>)
                     /\ audit' = <<>>
             ELSE IF ~initialized
                THEN /\ ret' = SGX_ERROR_INVALID_PARAMETER
                     /\ phase' = "returned"
                     /\ state' = state
                     /\ host' = EcallReturn(SGX_ERROR_INVALID_PARAMETER, 0, <<>>)
                     /\ audit' = <<AUDIT_STARTED>>
             ELSE IF validate_contract_code(c) # SGX_SUCCESS
                THEN /\ ret' = validate_contract_code(c)
                     /\ phase' = "returned"
                     /\ state' = state
                     /\ host' = EcallReturn(validate_contract_code(c), 0, <<>>)
                     /\ audit' = <<AUDIT_STARTED>>
             ELSE IF ~malloc_ok
                THEN /\ ret' = "SGX_ERROR_OUT_OF_MEMORY"
                     /\ phase' = "returned"
                     /\ state' = CONTRACT_STATE_RUNNING
                     /\ host' = EcallReturn("SGX_ERROR_OUT_OF_MEMORY", 0, <<>>)
                     /\ audit' = <<AUDIT_STARTED>>
             ELSE /\ ret' = SGX_SUCCESS
                  /\ phase' = "loop"
                  /\ state' = CONTRACT_STATE_RUNNING
                  /\ host' = Pending
                  /\ audit' = <<AUDIT_STARTED>>
    /\ pc' = 0
    /\ gas_used' = 0
    /\ stack' = <<>>
    /\ memory' = ZeroMemory
    /\ result' = <<>>
    /\ UNCHANGED <<initialized, execution_counter, execution_hash, oob,
                   master_key, proofvars, sealvars, appvars, concvars>>

(***************************************************************************)
(* One iteration of the interpreter loop (lines 147-176).                  *)
(***************************************************************************)
LoopCondition == state = CONTRACT_STATE_RUNNING /\ pc < Len(code)

Step ==
    /\ phase = "loop"
    /\ LoopCondition
    /\ LET opcode   == code[pc + 1]
           gas_cost == get_opcode_gas_cost(opcode)
       IN  IF ~check_gas(gas_used, gas_limit, gas_cost)
           THEN /\ state' = CONTRACT_STATE_OUT_OF_GAS
                /\ ret' = SGX_ERROR_INSUFFICIENT_GAS
                /\ UNCHANGED <<pc, gas_used, stack, memory, oob>>
           ELSE \E g \in GarbageChoices :
                  LET r == execute_instruction(code, pc, stack, memory, state,
                                               opcode, g)
                  IN  /\ ret' = r.ret
                      /\ stack' = r.stack
                      /\ memory' = r.memory
                      /\ oob' = (oob \/ r.oob)
                      /\ IF r.ret # SGX_SUCCESS
                         THEN /\ state' = CONTRACT_STATE_ERROR
                              /\ pc' = r.pc
                              /\ gas_used' = gas_used
                         ELSE /\ gas_used' = consume_gas(gas_used, gas_limit, gas_cost)
                              /\ pc' = r.pc + 1
                              /\ state' = IF opcode = OP_HALT
                                          THEN CONTRACT_STATE_COMPLETED
                                          ELSE r.state
    /\ UNCHANGED <<initialized, execution_counter, phase, code, input,
                   gas_limit, result, execution_hash, master_key, host, audit,
                   input_data_null, proofvars, sealvars, appvars, concvars>>

(***************************************************************************)
(* execute_contract, exit (lines 178-189): the execution hash of a         *)
(* completed run, the counter, the return.                                 *)
(***************************************************************************)
\* mutant of HashIsComputed: the hash of every execution
HashIsComputedAlways(st) == TRUE

\* if (context->state == CONTRACT_STATE_COMPLETED)
HashIsComputed(st) == st = CONTRACT_STATE_COMPLETED

Finish ==
    /\ phase = "loop"
    /\ ~LoopCondition
    /\ execution_hash' =
          IF HashIsComputed(state)
          THEN compute_execution_hash(code, input, result, gas_used)
          ELSE execution_hash
    /\ execution_counter' = execution_counter + 1
    /\ phase' = "returned"
    /\ host' = EcallReturn(ret, gas_used, result)
    /\ audit' = IF ret = SGX_SUCCESS THEN Append(audit, AUDIT_COMPLETED)
                ELSE audit
    /\ UNCHANGED <<initialized, ret, code, input, gas_limit, gas_used, pc,
                   state, stack, memory, result, oob, master_key,
                   input_data_null, proofvars, sealvars, appvars, concvars>>

(***************************************************************************)
(* execute_contract as a function: the context a whole execution of code c *)
(* leaves under gas limit `limit', when every indeterminate value it reads *)
(* is g.  The loop is cut after `fuel' iterations; a context that is still *)
(* RUNNING inside the code is an execution that was cut.                   *)
(***************************************************************************)
RunSteps == 40

RECURSIVE RunFrom(_, _, _, _, _)
RunFrom(c, limit, g, s, fuel) ==
    IF fuel = 0 \/ s.state # CONTRACT_STATE_RUNNING \/ s.pc >= Len(c) THEN s
    ELSE LET opcode   == c[s.pc + 1]
             gas_cost == get_opcode_gas_cost(opcode)
             r == execute_instruction(c, s.pc, s.stack, s.memory, s.state,
                                      opcode, g)
         IN  IF ~check_gas(s.gas_used, limit, gas_cost)
                 THEN [s EXCEPT !.state = CONTRACT_STATE_OUT_OF_GAS]
             ELSE IF r.ret # SGX_SUCCESS
                 THEN [s EXCEPT !.state = CONTRACT_STATE_ERROR,
                                !.stack = r.stack, !.memory = r.memory]
             ELSE RunFrom(c, limit, g,
                          [pc |-> r.pc + 1,
                           gas_used |-> consume_gas(s.gas_used, limit, gas_cost),
                           state |-> IF opcode = OP_HALT
                                     THEN CONTRACT_STATE_COMPLETED ELSE r.state,
                           stack |-> r.stack,
                           memory |-> r.memory,
                           result |-> s.result],
                          fuel - 1)

Run(c, limit, g) ==
    RunFrom(c, limit, g,
            [pc |-> 0, gas_used |-> 0, state |-> CONTRACT_STATE_RUNNING,
             stack |-> <<>>, memory |-> ZeroMemory, result |-> <<>>],
            RunSteps)

\* the execution hash the context holds after such an execution
RunHash(c, in, s) ==
    IF HashIsComputed(s.state)
    THEN compute_execution_hash(c, in, s.result, s.gas_used)
    ELSE NilHash

(***************************************************************************)
(* The caller is done with the context, a local of its own, and the host   *)
(* with the outputs of the call.                                           *)
(***************************************************************************)
Release ==
    /\ phase = "returned"
    /\ phase' = "idle"
    /\ ret' = SGX_SUCCESS
    /\ code' = <<>>
    /\ input' = <<>>
    /\ gas_limit' = 0
    /\ gas_used' = 0
    /\ pc' = 0
    /\ state' = CONTRACT_STATE_INIT
    /\ stack' = <<>>
    /\ memory' = ZeroMemory
    /\ result' = <<>>
    /\ execution_hash' = NilHash
    /\ oob' = FALSE
    /\ host' = NoCall
    /\ audit' = <<>>
    /\ input_data_null' = FALSE
    /\ UNCHANGED <<initialized, execution_counter, master_key, proofvars, sealvars, appvars, concvars>>

(***************************************************************************)
(* The execution proof (enclave.cpp).  ECDSA is kept symbolic: a signature *)
(* is the triple of a tag, the signing key and the signed bytes, and it    *)
(* verifies under a public key exactly when that key belongs to the        *)
(* signing key and the bytes are the signed ones.                          *)
(***************************************************************************)
\* bounds of the proof model
MaxTimestamp == 2
MaxNonce == 2
MaxKey == 2

\* sizeof(execution_proof_t): 32 + 8 + 16 + 64 + 64
PROOF_SIZE == 184
\* the proof buffer of the host (sgx_utils.cpp)
HOST_PROOF_BUFFER == 1024

Timestamps == 0..MaxTimestamp
Nonces == 0..MaxNonce
PrivateKeys == 1..MaxKey
PublicKey(k) == <<"pub", k>>
\* the public_key field after memset(&proof, 0, sizeof(proof))
ZeroKey == <<"pub", 0>>

sgx_ecdsa_sign(data, private_key) == <<"sig", private_key, data>>

\* verify_result = SGX_EC_VALID
sgx_ecdsa_verify(data, public_key, signature) ==
    /\ signature[1] = "sig"
    /\ PublicKey(signature[2]) = public_key
    /\ signature[3] = data

\* the first sizeof(execution_proof_t) - sizeof(sgx_ec256_signature_t) bytes
\* of a proof: every field but the signature
ProofData(p) ==
    <<p.execution_hash, p.timestamp, p.nonce, p.public_key>>

ProofHashes ==
    {NilHash} \cup {compute_execution_hash(c, <<>>, <<>>, 0) : c \in Scenarios}

BufferSizes == {PROOF_SIZE - 1, PROOF_SIZE, HOST_PROOF_BUFFER}

\* the proof as ecall_generate_execution_proof builds it: proof_data is
\* copied out of the proof before generate_key_pair fills in public_key
BuildProof(h, ts, nonce, k) ==
    LET zeroed == [execution_hash |-> h, timestamp |-> ts, nonce |-> nonce,
                   public_key |-> ZeroKey]
        proof_data == ProofData(zeroed)
    IN  [execution_hash |-> h, timestamp |-> ts, nonce |-> nonce,
         public_key |-> PublicKey(k),
         signature |-> sgx_ecdsa_sign(proof_data, k)]

GenerateProof ==
    /\ proof_phase \in {"none", "verified"}
    /\ \E h \in ProofHashes, ts \in Timestamps, nonce \in Nonces,
          k \in PrivateKeys, rand_ok \in BOOLEAN, size \in BufferSizes :
          IF ~rand_ok
             THEN /\ proof_ret' = "SGX_ERROR_UNEXPECTED"
                  /\ UNCHANGED <<proof_phase, proof_buffer, generated,
                                 issued_keys>>
          ELSE IF size < PROOF_SIZE
             THEN /\ proof_ret' = SGX_ERROR_INVALID_PARAMETER
                  /\ UNCHANGED <<proof_phase, proof_buffer, generated,
                                 issued_keys>>
          ELSE /\ proof_ret' = SGX_SUCCESS
               /\ proof_buffer' = BuildProof(h, ts, nonce, k)
               /\ generated' = BuildProof(h, ts, nonce, k)
               /\ issued_keys' = issued_keys \cup {PublicKey(k)}
               /\ proof_phase' = "generated"
    /\ UNCHANGED <<vmvars, sealvars, appvars, concvars, expected_hash, is_valid>>

\* <<status, *is_valid>> of ecall_verify_execution_proof
VerifyResult(p, proof_size, hash) ==
    IF proof_size # PROOF_SIZE THEN <<SGX_ERROR_INVALID_PARAMETER, 0>>
    ELSE IF p.execution_hash # hash THEN <<SGX_SUCCESS, 0>>
    ELSE <<SGX_SUCCESS,
           IF sgx_ecdsa_verify(ProofData(p), p.public_key, p.signature)
           THEN 1 ELSE 0>>

VerifyProof ==
    /\ proof_phase = "generated"
    /\ \E hash \in ProofHashes, proof_size \in {PROOF_SIZE - 1, PROOF_SIZE} :
          /\ expected_hash' = hash
          /\ proof_ret' = VerifyResult(proof_buffer, proof_size, hash)[1]
          /\ is_valid' = VerifyResult(proof_buffer, proof_size, hash)[2]
    /\ proof_phase' = "verified"
    /\ UNCHANGED <<vmvars, sealvars, appvars, concvars, proof_buffer, generated, issued_keys>>

(***************************************************************************)
(* The proof lies in a buffer of the host between the two calls            *)
(* (sgx_utils.cpp), and the host may change it there: one field, or any    *)
(* of these together with a public key and a signature of its own.         *)
(***************************************************************************)
\* a key pair that the host has made itself
HostKey == MaxKey + 1

\* the proof with the public key of the host, signed again by the host
Resign(p) ==
    LET q == [p EXCEPT !.public_key = PublicKey(HostKey)]
    IN  [q EXCEPT !.signature = sgx_ecdsa_sign(ProofData(q), HostKey)]

OneFieldChanged(p) ==
    {[p EXCEPT !.execution_hash = h] : h \in ProofHashes}
    \cup {[p EXCEPT !.timestamp = ts] : ts \in Timestamps}
    \cup {[p EXCEPT !.nonce = n] : n \in Nonces}
    \cup {[p EXCEPT !.public_key = pk] :
             pk \in {ZeroKey} \cup {PublicKey(k) : k \in 1..HostKey}}
    \cup {[p EXCEPT !.signature = sgx_ecdsa_sign(ProofData(p), HostKey)]}

Forgeries(p) ==
    (OneFieldChanged(p) \cup {Resign(q) : q \in OneFieldChanged(p)}) \ {p}

Tamper ==
    /\ proof_phase = "generated"
    /\ proof_buffer = generated
    /\ \E forged \in Forgeries(proof_buffer) : proof_buffer' = forged
    /\ UNCHANGED <<vmvars, sealvars, appvars, concvars, proof_phase, proof_ret, expected_hash, is_valid,
                   generated, issued_keys>>

ProofNext == GenerateProof \/ Tamper \/ VerifyProof

ProofSpec == Init /\ [][ProofNext]_vars

(***************************************************************************)
(* Sealing (enclave.cpp, ecall_seal_data and ecall_unseal_data).  The SDK's *)
(* AES-GCM is kept symbolic: the payload of a blob names the plaintext it  *)
(* encrypts and how its bytes were altered since, and the tag names the    *)
(* lengths and the payload it was computed over.                           *)
(***************************************************************************)
\* bound of the sealing model: the length of a plaintext
MaxBlob == 2

BlobBytes == {1, 2}
Blobs == UNION {[1..n -> BlobBytes] : n \in 0..MaxBlob}

\* sizeof(sgx_sealed_data_t) is 560
sgx_calc_sealed_data_size(add_mac_txt_size, txt_encrypt_size) ==
    560 + add_mac_txt_size + txt_encrypt_size

\* altered: 0 as encrypted, 1 a byte changed, 2 bytes re-ordered
Payload(b, altered) == <<"enc", b, altered>>
Tag(enc_len, mac_len, payload) == <<"tag", enc_len, mac_len, payload>>

\* the fields of a blob
EncryptTxtLen(s) == s[2]
AddMacTxtLen(s) == s[3]
PayloadOf(s) == s[4]
TagOf(s) == s[5]
IsWhole(s) == s[6]

\* sgx_seal_data(0, NULL, plaintext_size, plaintext, ...) on success
sgx_seal_data(b) ==
    SealedData(Len(b), 0, Payload(b, 0), Tag(Len(b), 0, Payload(b, 0)), TRUE)

SealedCapacities(b) ==
    {sgx_calc_sealed_data_size(0, Len(b)) - 1,
     sgx_calc_sealed_data_size(0, Len(b)), 1024}

\* <<status, *sealed_size after the call>> of ecall_seal_data; the SDK
\* rejects a plaintext of length 0, and may fail (seal_ok) in its key
\* derivation
SealResult(b, capacity, seal_ok) ==
    LET required_size == sgx_calc_sealed_data_size(0, Len(b))
    IN  IF capacity < required_size
        THEN <<SGX_ERROR_INVALID_PARAMETER, required_size>>
        ELSE IF Len(b) = 0 THEN <<SGX_ERROR_INVALID_PARAMETER, capacity>>
        ELSE IF ~seal_ok THEN <<"SGX_ERROR_UNEXPECTED", capacity>>
        ELSE <<SGX_SUCCESS, required_size>>

SealData ==
    /\ seal_phase \in {"none", "unsealed"}
    /\ \E b \in Blobs, seal_ok \in BOOLEAN :
       \E capacity \in SealedCapacities(b) :
          /\ seal_plain' = b
          /\ sealed_capacity' = capacity
          /\ seal_ret' = SealResult(b, capacity, seal_ok)[1]
          /\ IF SealResult(b, capacity, seal_ok)[1] = SGX_SUCCESS
                THEN /\ sealed' = sgx_seal_data(b)
                     /\ seal_phase' = "sealed"
                ELSE /\ sealed' = NoBlob
                     /\ seal_phase' = "none"
    /\ plain_out' = <<>>
    /\ plain_size' = SizeT(0, 0)
    /\ plain_capacity' = SizeT(0, 0)
    /\ UNCHANGED <<vmvars, proofvars, appvars, concvars, outcall>>

\* the blob lies with the host between the two calls: a byte of the
\* payload or of the tag changed, bytes of the payload re-ordered, the
\* plain_text_offset of the header changed to n, or the end cut off
Alterations(s) ==
    LET b == PayloadOf(s)[2]
        enc_len == EncryptTxtLen(s)
    IN  {SealedData(enc_len, 0, Payload(b, 1), TagOf(s), TRUE),
         SealedData(enc_len, 0, PayloadOf(s),
                    Tag(enc_len, 0, Payload(b, 1)), TRUE),
         SealedData(enc_len, 0, PayloadOf(s), TagOf(s), FALSE)}
        \cup (IF enc_len >= 2
              THEN {SealedData(enc_len, 0, Payload(b, 2), TagOf(s), TRUE)}
              ELSE {})
        \cup {SealedData(n, enc_len - n, PayloadOf(s), TagOf(s), TRUE) :
                 n \in 0..(enc_len - 1)}

TamperSealed ==
    /\ seal_phase = "sealed"
    /\ sealed = sgx_seal_data(seal_plain)
    /\ \E altered \in Alterations(sealed) : sealed' = altered
    /\ UNCHANGED <<vmvars, proofvars, appvars, concvars, seal_phase, seal_plain, seal_ret,
                   plain_out, plain_size, sealed_capacity, plain_capacity,
                   outcall>>

PlainCapacities == {SizeT(h, l) : h \in {0, 1}, l \in 0..MaxBlob}

\* sgx_unseal_data: decrypted_len is *plaintext_size read through a
\* uint32_t pointer, the low half of the size_t; stale says whether the
\* bytes behind a blob that was cut off are those that were cut off
sgx_unseal_data(s, decrypted_len, stale) ==
    IF EncryptTxtLen(s) < 1 THEN <<SGX_ERROR_INVALID_PARAMETER, <<>>>>
    ELSE IF decrypted_len < EncryptTxtLen(s)
        THEN <<SGX_ERROR_INVALID_PARAMETER, <<>>>>
    ELSE IF \/ TagOf(s) # Tag(EncryptTxtLen(s), AddMacTxtLen(s), PayloadOf(s))
            \/ PayloadOf(s)[3] # 0
            \/ ~IsWhole(s) /\ ~stale
        THEN <<"SGX_ERROR_MAC_MISMATCH", <<>>>>
    ELSE <<SGX_SUCCESS, PayloadOf(s)[2]>>

\* <<status, plaintext written, *plaintext_size after the call>> of
\* ecall_unseal_data, which does not look at sealed_size
UnsealResult(s, capacity, malloc_ok, stale) ==
    LET required_size == EncryptTxtLen(s)
        unsealed == sgx_unseal_data(s, capacity.lo, stale)
    IN  IF capacity.hi = 0 /\ capacity.lo < required_size
        THEN <<SGX_ERROR_INVALID_PARAMETER, <<>>, SizeT(0, required_size)>>
        ELSE IF ~malloc_ok
        THEN <<"SGX_ERROR_OUT_OF_MEMORY", <<>>, capacity>>
        ELSE IF unsealed[1] # SGX_SUCCESS
        THEN <<unsealed[1], <<>>, capacity>>
        ELSE <<SGX_SUCCESS, unsealed[2],
               SizeT(capacity.hi, EncryptTxtLen(s))>>

UnsealData ==
    /\ seal_phase = "sealed"
    /\ \E capacity \in PlainCapacities, malloc_ok \in BOOLEAN,
          stale \in BOOLEAN :
          /\ plain_capacity' = capacity
          /\ seal_ret' = UnsealResult(sealed, capacity, malloc_ok, stale)[1]
          /\ plain_out' = UnsealResult(sealed, capacity, malloc_ok, stale)[2]
          /\ plain_size' = UnsealResult(sealed, capacity, malloc_ok, stale)[3]
    /\ seal_phase' = "unsealed"
    /\ UNCHANGED <<vmvars, proofvars, appvars, concvars, seal_plain, sealed, sealed_capacity,
                   outcall>>

(***************************************************************************)
(* ecall_handle_state_update: the value goes to the storage outcall as the *)
(* caller gave it.                                                         *)
(***************************************************************************)
\* what a caller may give as the state value: plain bytes, or a blob that
\* ecall_seal_data made before
StateValues == Blobs \cup {sgx_seal_data(b) : b \in Blobs \ {<<>>}}

\* <<status, outcall made>> of ecall_handle_state_update
StateUpdateResult(operation, state_value) ==
    CASE operation = 0 -> <<SGX_SUCCESS, Outcall("read", <<>>)>>
      [] operation = 1 -> <<SGX_SUCCESS, Outcall("write", state_value)>>
      [] operation = 2 -> <<SGX_SUCCESS, Outcall("delete", <<>>)>>
      [] OTHER -> <<SGX_ERROR_INVALID_PARAMETER, NoOutcall>>

HandleStateUpdate ==
    /\ \E operation \in 0..3, state_value \in StateValues :
          /\ seal_ret' = StateUpdateResult(operation, state_value)[1]
          /\ outcall' = StateUpdateResult(operation, state_value)[2]
    /\ UNCHANGED <<vmvars, proofvars, appvars, concvars, seal_phase, seal_plain, sealed, plain_out,
                   plain_size, sealed_capacity, plain_capacity>>

SealNext == SealData \/ TamperSealed \/ UnsealData \/ HandleStateUpdate

SealSpec == Init /\ [][SealNext]_vars

Next == InitVerifier \/ Call \/ Step \/ Finish \/ Release

Spec == Init /\ [][Next]_vars

LiveSpec == Init /\ [][Next]_vars /\ WF_vars(Step) /\ WF_vars(Finish)

(***************************************************************************)
(* Properties.                                                             *)
(***************************************************************************)
\* the opcode the loop is about to fetch, and whether it gets executed
CurOp == code[pc + 1]
InLoop == phase = "loop" /\ LoopCondition
Executes == InLoop /\ gas_used + get_opcode_gas_cost(CurOp) <= gas_limit
TopOfStack == stack[Len(stack)]

\* the opcodes execute_instruction has a case for
Implemented == KnownOpcodes \ {OP_CALL, OP_RET}

\* the instruction at pc can only fail as an unknown opcode, a truncated
\* operand or a bad jump target
StructuralFailureOnly ==
    \/ CurOp \notin Implemented
    \/ CurOp = OP_PUSH /\ pc + 8 >= Len(code)
    \/ CurOp = OP_JMP
    \/ CurOp = OP_JMPIF /\ Len(stack) > 0 /\ TopOfStack # ZeroWord

\* C1: validator soundness: the code of a running execution was accepted by
\* validate_contract_code, and no instruction of it fails as an unknown
\* opcode, a truncated operand or a bad jump target.
C1_ValidatorSoundness ==
    [][(Executes /\ StructuralFailureOnly) => state' # CONTRACT_STATE_ERROR]_vars

\* C2: termination: every execution that has entered the interpreter loop
\* reaches a terminal state and returns.
C2_Termination == (phase = "loop") ~> (phase = "returned")

\* C3: proof round trip: a proof generated for X and verified, as it is,
\* against X is valid.
C3_ProofRoundTrip ==
    (/\ proof_phase = "verified"
     /\ proof_buffer = generated
     /\ proof_ret = SGX_SUCCESS
     /\ expected_hash = proof_buffer.execution_hash) => is_valid = 1

\* C4: the output of a completed execution is the 8 little-endian bytes of
\* the top of the stack, and empty when the stack is empty.
C4_Output ==
    (phase = "returned" /\ state = CONTRACT_STATE_COMPLETED)
        => result = (IF Len(stack) > 0 THEN TopOfStack ELSE <<>>)

\* C5: gas bound: gas_used <= gas_limit in every reachable state.
C5_GasBound == gas_used <= gas_limit

\* C5 witness: an execution that has used up its gas limit exactly
C5_Witness == phase = "loop" /\ gas_used > 0 /\ gas_used = gas_limit

\* the cost table of the specification
TableCost(op) ==
    CASE op = OP_NOP -> 1
      [] op = OP_PUSH -> 3
      [] op = OP_POP -> 2
      [] op \in {OP_ADD, OP_SUB} -> 3
      [] op \in {OP_MUL, OP_DIV, OP_MOD} -> 5
      [] op \in {OP_AND, OP_OR, OP_XOR, OP_NOT, OP_EQ, OP_LT, OP_GT} -> 3
      [] op = OP_JMP -> 3
      [] op = OP_JMPIF -> 4
      [] op = OP_LOAD -> 3
      [] op = OP_STORE -> 5
      [] op = OP_HASH -> 30
      [] op = OP_VERIFY -> 100
      [] OTHER -> 0

\* C6: cost table: every instruction that is executed is charged the cost
\* of its opcode in the table.
C6_CostTable ==
    [][(Executes /\ state' \in {CONTRACT_STATE_RUNNING, CONTRACT_STATE_COMPLETED})
          => gas_used' = gas_used + TableCost(CurOp)]_vars

\* C7: charge before effect: an instruction that fails at run time has been
\* charged: its cost is part of the gas_used the execution ends with.
C7_ChargeBeforeEffect ==
    [][(Executes /\ state' = CONTRACT_STATE_ERROR)
          => gas_used' = gas_used + get_opcode_gas_cost(CurOp)]_vars

\* C8: out of gas: a step enters OUT_OF_GAS exactly when gas_used plus the
\* cost of the next opcode exceeds gas_limit; that step changes neither
\* gas_used nor stack, memory or pc; nothing is executed afterwards.
C8_OutOfGas ==
    /\ [][InLoop =>
            /\ (state' = CONTRACT_STATE_OUT_OF_GAS)
                  <=> (gas_used + get_opcode_gas_cost(CurOp) > gas_limit)
            /\ state' = CONTRACT_STATE_OUT_OF_GAS
                  => UNCHANGED <<gas_used, stack, memory, pc>>]_vars
    /\ [][(phase = "loop" /\ state = CONTRACT_STATE_OUT_OF_GAS)
            => /\ phase' = "returned"
               /\ UNCHANGED <<state, gas_used, stack, memory, pc>>]_vars

\* C8 witness: an execution that ran out of gas after executing something
C8_Witness ==
    /\ phase = "returned"
    /\ state = CONTRACT_STATE_OUT_OF_GAS
    /\ gas_used > 0
    /\ Len(stack) > 0

\* C9: unterminated program: an execution that leaves the interpreter loop
\* is not RUNNING any more, and is in ERROR when pc is at or past the end
\* of the code without a HALT.
C9_Unterminated ==
    [][(phase = "loop" /\ phase' = "returned") =>
          /\ state' # CONTRACT_STATE_RUNNING
          /\ (pc >= Len(code) /\ state # CONTRACT_STATE_COMPLETED)
                => state' = CONTRACT_STATE_ERROR]_vars

\* the number of values the instruction pops before it pushes
Pops(op) ==
    CASE op \in {OP_POP, OP_NOT, OP_JMPIF, OP_LOAD, OP_VERIFY} -> 1
      [] op \in {OP_ADD, OP_SUB, OP_MUL, OP_DIV, OP_MOD, OP_AND, OP_OR, OP_XOR,
                 OP_EQ, OP_LT, OP_GT, OP_STORE, OP_HASH} -> 2
      [] OTHER -> 0

\* C10: stack bounds: the depth stays within 0..256; a push at depth 256
\* and a pop at depth 0 end in ERROR, and the stack keeps to its slots.
C10_StackBounds ==
    /\ [](Len(stack) <= STACK_SLOTS)
    /\ [][(Executes /\ CurOp = OP_PUSH /\ Len(stack) = STACK_SLOTS)
            => state' = CONTRACT_STATE_ERROR /\ stack' = stack]_vars
    /\ [][(Executes /\ Len(stack) < Pops(CurOp))
            => /\ state' = CONTRACT_STATE_ERROR
               /\ stack' = SubSeq(stack, 1, Len(stack'))]_vars

\* C10 witness: a PUSH that found the stack full
C10_Witness == state = CONTRACT_STATE_ERROR /\ Len(stack) = STACK_SLOTS

\* the address and the length an instruction is about to pop, as numbers
\* (negative for every value from 2^24 on)
Under(n) == WordToNat(stack[Len(stack) - n])
\* a + n > 4096 as mathematical integers
Exceeds(a, n) == a < 0 \/ n < 0 \/ a + n > MEMORY_SIZE

\* C11: memory confinement: no instruction reads or writes outside the 4096
\* bytes of memory, and a HASH whose address plus length exceeds 4096 as
\* mathematical integers (a wrapping 64-bit sum included) ends in ERROR.
C11_MemoryConfinement ==
    /\ [](~oob /\ DOMAIN memory \subseteq 0..(MEMORY_SIZE - 1))
    /\ [][(Executes /\ CurOp = OP_HASH /\ Len(stack) >= 2
            /\ Exceeds(Under(1), Under(0)))
          => state' = CONTRACT_STATE_ERROR /\ ~oob']_vars

\* C12: LOAD/STORE boundary: LOAD and STORE of address a end in ERROR
\* exactly when a + 8 > 4096; otherwise the 8 bytes at a are read or
\* written and the execution goes on.
C12_LoadStoreBoundary ==
    /\ [][(Executes /\ CurOp = OP_LOAD /\ Len(stack) >= 1) =>
            IF Exceeds(Under(0), 8)
            THEN state' = CONTRACT_STATE_ERROR
            ELSE /\ state' = CONTRACT_STATE_RUNNING
                 /\ stack' = Append(SubSeq(stack, 1, Len(stack) - 1),
                                    MemRead8(memory, Under(0)))]_vars
    /\ [][(Executes /\ CurOp = OP_STORE /\ Len(stack) >= 2) =>
            IF Exceeds(Under(1), 8)
            THEN state' = CONTRACT_STATE_ERROR
            ELSE /\ state' = CONTRACT_STATE_RUNNING
                 /\ MemRead8(memory', Under(1)) = stack[Len(stack)]]_vars

\* the instruction format of the specification: the operand bytes that
\* follow an opcode, and the offsets at which a linear scan finds an
\* instruction
OperandWidth(op) ==
    CASE op = OP_PUSH -> 8
      [] op \in {OP_JMP, OP_JMPIF} -> 4
      [] OTHER -> 0

RECURSIVE StartsFrom(_, _)
StartsFrom(c, i) ==
    IF i >= Len(c) THEN {}
    ELSE {i} \cup StartsFrom(c, i + 1 + OperandWidth(c[i + 1]))

InstrStarts(c) == StartsFrom(c, 0)

OperandTarget(c, i) ==
    c[i + 2] + 256 * c[i + 3] + 65536 * c[i + 4] + 16777216 * c[i + 5]

\* operands inside the code, jump targets at instruction starts, HALT last
OperandsJumpsHalt(c) ==
    /\ Len(c) > 0
    /\ \A i \in InstrStarts(c) :
          /\ i + OperandWidth(c[i + 1]) < Len(c)
          /\ c[i + 1] \in {OP_JMP, OP_JMPIF} => OperandTarget(c, i) \in InstrStarts(c)
    /\ Len(c) - 1 \in InstrStarts(c)
    /\ c[Len(c)] = OP_HALT

WellFormed(c) ==
    /\ OperandsJumpsHalt(c)
    /\ \A i \in InstrStarts(c) : c[i + 1] \in Implemented

\* C13: the validator accepts only well-formed programs: the code of an
\* execution that entered the interpreter loop has its operands inside the
\* code, its jump targets at instruction starts and HALT as last instruction.
C13_AcceptsOnlyWellFormed == phase = "loop" => OperandsJumpsHalt(code)

\* C14: the validator accepts every well-formed program (of at most 1 MiB):
\* a call with such a code does not return SGX_ERROR_CONTRACT_INVALID.
C14_AcceptsWellFormed ==
    [][(phase = "idle" /\ phase' # "idle" /\ initialized
        /\ WellFormed(code') /\ Len(code') <= MAX_CONTRACT_SIZE)
          => ret' # SGX_ERROR_CONTRACT_INVALID]_vars

\* C15: no accepted program contains a CALL or RET instruction, and no
\* execution fetches one.
C15_RejectsCallRet ==
    phase = "loop" =>
        /\ \A i \in InstrStarts(code) : code[i + 1] \notin {OP_CALL, OP_RET}
        /\ InLoop => CurOp \notin {OP_CALL, OP_RET}

\* C16: run-time jump check: the interpreter fetches opcodes at instruction
\* starts only; a jump to any other offset ends in ERROR.
C16_RuntimeJumpCheck ==
    /\ [](InLoop => pc \in InstrStarts(code))
    /\ [][(Executes /\ CurOp \in {OP_JMP, OP_JMPIF}
            /\ state' # CONTRACT_STATE_ERROR)
          => (pc' < Len(code) => pc' \in InstrStarts(code))]_vars

\* an execution that has returned from the interpreter loop
Returned == phase = "returned" /\ state # CONTRACT_STATE_INIT
            /\ ret \notin {SGX_ERROR_CONTRACT_INVALID, "SGX_ERROR_OUT_OF_MEMORY"}
WasCut(s) == s.state = CONTRACT_STATE_RUNNING /\ s.pc < Len(code)

\* C17: determinism and no carry-over: every execution starts from pc = 0,
\* gas_used = 0, an empty stack and zeroed memory, and any other execution
\* of the same code, input and gas limit ends with the same output,
\* execution hash, gas_used and state.
C17_Determinism ==
    /\ [][(phase = "idle" /\ phase' = "loop")
            => /\ pc' = 0 /\ gas_used' = 0 /\ stack' = <<>>
               /\ memory' = ZeroMemory /\ result' = <<>>
               /\ execution_hash' = NilHash]_vars
    /\ [](Returned =>
            \A g \in GarbageChoices :
                LET other == Run(code, gas_limit, g)
                IN  WasCut(other)
                    \/ /\ other.state = state
                       /\ other.gas_used = gas_used
                       /\ other.result = result
                       /\ RunHash(code, input, other) = execution_hash)

\* C18: hash stability: when an execution has completed, every execution
\* of the same code and input under a gas limit that suffices for it
\* completes with the same output, gas_used and execution hash.
C18_HashStability ==
    (Returned /\ state = CONTRACT_STATE_COMPLETED) =>
        \A limit \in {gl \in GasLimits : gl >= gas_used}, g \in GarbageChoices :
            LET other == Run(code, limit, g)
            IN  WasCut(other)
                \/ /\ other.state = CONTRACT_STATE_COMPLETED
                   /\ other.gas_used = gas_used
                   /\ other.result = result
                   /\ RunHash(code, input, other) = execution_hash

\* C19: the execution hash is nil unless the execution has returned in
\* state COMPLETED: nil after ERROR, after OUT_OF_GAS and after a code the
\* validator rejected.
C19_NilHashOnFailure ==
    execution_hash # NilHash
        => (phase = "returned" /\ state = CONTRACT_STATE_COMPLETED)

\* C19 witness: an execution that did some work, ended in ERROR and has
\* returned
C19_Witness ==
    /\ phase = "returned"
    /\ state = CONTRACT_STATE_ERROR
    /\ gas_used > 0
    /\ execution_hash = NilHash

\* C20: the hashed record is H(code), H(input), output, LE64(gas_used), in
\* that order, with H of the empty string when the input is empty.
C20_HashPreimage ==
    (phase = "returned" /\ state = CONTRACT_STATE_COMPLETED) =>
        execution_hash =
            Sha256(<<Sha256(code), Sha256(input), result \o LE64(gas_used)>>)


(***************************************************************************)
(* The boundary calls as the host sees them.                               *)
(***************************************************************************)
\* an execute invocation returns in this step
ExecuteReturns == phase # "returned" /\ phase' = "returned"
\* the last execute invocation failed in the validator or at run time
ValidatorRejected == validate_contract_code(code) # SGX_SUCCESS
RuntimeError ==
    state \in {CONTRACT_STATE_ERROR, CONTRACT_STATE_OUT_OF_GAS}
ExecuteFailed ==
    /\ phase = "returned"
    /\ initialized
    /\ host.call = "execute"
    /\ ValidatorRejected \/ RuntimeError

\* C23: every execute invocation on an initialized verifier, completed or
\* failed, advances execution_counter by exactly 1, and the counter never
\* decreases.
C23_CounterAdvances ==
    [][/\ (initialized /\ ExecuteReturns)
            => execution_counter' = execution_counter + 1
       /\ execution_counter' >= execution_counter]_vars

\* C24: when an execution ends in ERROR or OUT_OF_GAS, the caller of the
\* boundary call has received the gas_used reached at the failure and an
\* output of length 0.
C24_FailureResults ==
    (phase = "returned" /\ host.call = "execute" /\ RuntimeError)
        => (host.written /\ host.gas_used = gas_used /\ host.result = <<>>)

\* C25: every validator rejection and every runtime error is reported by
\* the boundary call with the one status SGX_ERROR_CONTRACT_EXECUTION_FAILED.
C25_ErrorCollapse ==
    ExecuteFailed => host.ret = SGX_ERROR_CONTRACT_EXECUTION_FAILED

\* C26: an execute invocation that failed in the validator or at run time
\* has emitted an audit record after its 'started' record before it
\* returned.
C26_FailureAudit ==
    ExecuteFailed => (Len(audit) >= 2 /\ audit[1] = AUDIT_STARTED)

\* C30: an init call on an initialized verifier returns SGX_SUCCESS and
\* leaves the master keys, execution_counter and the initialized flag as
\* they were.
C30_InitIdempotent ==
    [][(initialized /\ phase = "idle" /\ phase' = "idle"
            /\ host'.call = "init")
        => (host'.ret = SGX_SUCCESS
            /\ UNCHANGED <<initialized, execution_counter, master_key>>)]_vars

\* an init call has returned on a verifier that has executed a contract
C30_Witness ==
    initialized /\ host.call = "init" /\ execution_counter > 0

C22_LongTermKey == Cardinality(issued_keys) <= 1

(***************************************************************************)
(* Sealing and host storage.                                               *)
(***************************************************************************)
\* a failure of the platform rather than of the call
ResourceFailure == seal_ret \in {"SGX_ERROR_OUT_OF_MEMORY", "SGX_ERROR_UNEXPECTED"}
\* the plaintext buffer has room for n bytes
Sufficient(capacity, n) == capacity.hi > 0 \/ capacity.lo >= n

\* C27: every value handed to the storage_write outcall is the output of
\* seal.
C27_OnlySealedStored ==
    outcall.kind = "write"
        => \E b \in Blobs : outcall.value = sgx_seal_data(b)

\* C28: for every plaintext b and output buffers of sufficient size, seal
\* succeeds, and unseal of the blob succeeds and returns exactly b with the
\* length of b.
C28_SealRoundTrip ==
    /\ (/\ seal_phase = "none"
        /\ sealed_capacity >= sgx_calc_sealed_data_size(0, Len(seal_plain))
        /\ ~ResourceFailure) => seal_ret = SGX_SUCCESS
    /\ (/\ seal_phase = "unsealed"
        /\ sealed = sgx_seal_data(seal_plain)
        /\ Sufficient(plain_capacity, Len(seal_plain))
        /\ ~ResourceFailure)
           => /\ seal_ret = SGX_SUCCESS
              /\ plain_out = seal_plain
              /\ plain_size = SizeT(0, Len(seal_plain))

\* C29: unseal of a blob that was cut off, had a byte changed or had bytes
\* re-ordered returns an authentication failure and no plaintext.
C29_UnsealFailsClosed ==
    (/\ seal_phase = "unsealed"
     /\ sealed # sgx_seal_data(seal_plain)
     /\ plain_capacity.hi = 0
     /\ plain_capacity.lo >= Len(seal_plain)
     /\ ~ResourceFailure)
        => (seal_ret = "SGX_ERROR_MAC_MISMATCH" /\ plain_out = <<>>)


(***************************************************************************)
(* The host's sample contract, the empty input and the call before the     *)
(* initialisation.                                                         *)
(***************************************************************************)

\* C31: the sample contract of create_sample_contract is accepted by the
\* validator, and its execution on an initialised enclave succeeds with a
\* non-empty output, a non-empty execution hash and gas_used > 0.
C31_SampleContract ==
    (phase = "returned" /\ initialized /\ ~input_data_null
        /\ code = create_sample_contract)
        => /\ validate_contract_code(code) = SGX_SUCCESS
           /\ host.ret = SGX_SUCCESS
           /\ host.result # <<>>
           /\ execution_hash # NilHash
           /\ host.gas_used > 0

\* C32: the empty input, which the host passes as a null pointer, is
\* accepted: a program that completes under some gas limit succeeds for it
\* as it does for a non-empty input.
C32_EmptyInput ==
    (phase = "returned" /\ initialized /\ input = <<>> /\ input_data_null
        /\ \E gl \in GasLimits, g \in GarbageChoices :
              Run(code, gl, g).state = CONTRACT_STATE_COMPLETED)
        => host.ret = SGX_SUCCESS

\* C38: an execute call on a verifier that is not initialised is rejected
\* with a not-initialized status, runs no instruction, emits no audit record
\* and leaves execution_counter unchanged.
C38_ExecuteBeforeInit ==
    (phase = "returned" /\ ~initialized)
        => /\ host.call = "execute"
           /\ host.ret = "SGX_ERROR_INVALID_STATE"
           /\ ~host.written
           /\ audit = <<>>
           /\ execution_counter = 0
           /\ state = CONTRACT_STATE_INIT
           /\ pc = 0 /\ gas_used = 0 /\ stack = <<>>

\* C38 witness: a valid program was submitted to a verifier that is not
\* initialised, and the call has returned
C38_Witness ==
    /\ phase = "returned"
    /\ ~initialized
    /\ validate_contract_code(code) = SGX_SUCCESS
    /\ host.ret = "SGX_ERROR_INVALID_STATE"


(***************************************************************************)
(* The gas limit 2.                                                        *)
(***************************************************************************)

\* C35 as stated: every program the validator accepts, executed with
\* gas_limit = 2, ends in OUT_OF_GAS with an empty output.
C35_GasLimitTwo ==
    (Returned /\ validate_contract_code(code) = SGX_SUCCESS /\ gas_limit = 2)
        => /\ state = CONTRACT_STATE_OUT_OF_GAS
           /\ result = <<>>

\* C35 amended: every program the validator accepts whose first opcode
\* costs more than 2 gas, executed with gas_limit = 2, ends in OUT_OF_GAS
\* with an empty output.
C35_GasLimitTwoCostly ==
    (Returned /\ validate_contract_code(code) = SGX_SUCCESS /\ gas_limit = 2
        /\ GAS_COSTS[code[1]] > 2)
        => /\ state = CONTRACT_STATE_OUT_OF_GAS
           /\ result = <<>>
           /\ host.result = <<>>

\* C35 witness: an accepted program that starts with PUSH has been executed
\* with gas_limit = 2 and has returned
C35_Witness ==
    /\ Returned
    /\ validate_contract_code(code) = SGX_SUCCESS
    /\ gas_limit = 2
    /\ code[1] = OP_PUSH
    /\ state = CONTRACT_STATE_OUT_OF_GAS


(***************************************************************************)
(* Wrap-around arithmetic.                                                 *)
(***************************************************************************)
\* a + b, a - b and a * b modulo 2^64
Modular(opcode, a, b) ==
    CASE opcode = OP_ADD -> WAdd(a, b)
      [] opcode = OP_SUB -> WSub(a, b)
      [] opcode = OP_MUL -> WMul(a, b)

\* C36: ADD, SUB and MUL on a stack of at least two values take b from the
\* top and a from below it and put a + b, a - b, a * b modulo 2^64 in their
\* place; they do not fail, whatever the values, and the depth goes down by
\* exactly one.
C36_WrapAround ==
    [][(Executes /\ CurOp \in {OP_ADD, OP_SUB, OP_MUL} /\ Len(stack) >= 2)
        => LET b == stack[Len(stack)]
               a == stack[Len(stack) - 1]
           IN  /\ state' = CONTRACT_STATE_RUNNING
               /\ ret' = SGX_SUCCESS
               /\ Len(stack') = Len(stack) - 1
               /\ stack' = Append(SubSeq(stack, 1, Len(stack) - 2),
                                  Modular(CurOp, a, b))]_vars

\* C36 witness: 5 - 10 has been computed and left 2^64 - 5 on the stack
C36_Witness ==
    /\ state = CONTRACT_STATE_COMPLETED
    /\ code = Concat(<<Push(5), Push(10), <<OP_SUB>>, <<OP_HALT>>>>)
    /\ stack = <<WNot(SmallWord(4))>>


(***************************************************************************)
(* Status and state; the input.                                            *)
(***************************************************************************)

\* C37: status matches state: execute_contract returns the success status
\* exactly when the context is COMPLETED and its execution hash has been
\* computed; no call returns success in RUNNING, ERROR or OUT_OF_GAS.
C37_StatusMatchesState ==
    Returned =>
        /\ (ret = SGX_SUCCESS)
              <=> (state = CONTRACT_STATE_COMPLETED /\ execution_hash # NilHash)
        /\ ret = SGX_SUCCESS
              => state \notin {CONTRACT_STATE_RUNNING, CONTRACT_STATE_ERROR,
                               CONTRACT_STATE_OUT_OF_GAS}

\* C40: the input influences nothing but the execution hash: any execution
\* of the same code under the same gas limit with another input ends with
\* the same state, output, gas_used, stack and memory, and, when both
\* complete, with a different execution hash.
C40_InputIndependence ==
    Returned =>
        \A g \in GarbageChoices, in \in Inputs \ {input} :
            LET other == Run(code, gas_limit, g)
            IN  WasCut(other)
                \/ /\ other.state = state
                   /\ other.result = result
                   /\ other.gas_used = gas_used
                   /\ other.stack = stack
                   /\ other.memory = memory
                   /\ state = CONTRACT_STATE_COMPLETED
                         => RunHash(code, in, other) # execution_hash


(***************************************************************************)
(* The host application, SGXSmartContractApp (sgx_utils.cpp).  The         *)
(* boundary calls it makes (ecall_init_verifier, ecall_execute_contract,   *)
(* ecall_generate_proof, ecall_get_measurement, ecall_create_report) go    *)
(* through generated bridge code; here a boundary call is recorded and     *)
(* either succeeds or fails.                                               *)
(***************************************************************************)
MaxEnclaves == 3

\* the id of the n-th enclave: ids are not 0
sgx_create_enclave(n) == n

\* bool is_enclave_ready() const
is_enclave_ready == enclave_initialized

initialize_enclave ==
    /\ IF enclave_initialized
       THEN /\ host_op' = HostOp("initialize_enclave", APP_SUCCESS, <<>>,
                                 FALSE, FALSE)
            /\ UNCHANGED <<enclave_id, enclave_initialized, created>>
       ELSE /\ created < MaxEnclaves
            /\ \E create_ok, ecall_ok \in BOOLEAN :
                 IF ~create_ok
                 THEN /\ host_op' = HostOp("initialize_enclave",
                                           APP_ERROR_ENCLAVE_INIT, <<>>,
                                           FALSE, FALSE)
                      /\ UNCHANGED <<enclave_id, enclave_initialized, created>>
                 ELSE /\ created' = created + 1
                      /\ enclave_id' = sgx_create_enclave(created + 1)
                      /\ enclave_initialized' = ecall_ok
                      /\ host_op' = HostOp("initialize_enclave",
                                           IF ecall_ok THEN APP_SUCCESS
                                           ELSE APP_ERROR_ENCLAVE_INIT,
                                           <<"ecall_init_verifier">>,
                                           FALSE, FALSE)
    /\ UNCHANGED <<vmvars, proofvars, sealvars, concvars>>

\* mutant of CanDestroy: destroy_enclave never finds an enclave to destroy
CanDestroyNever(ready, id) == FALSE

\* if (enclave_initialized && enclave_id != 0)
CanDestroy(ready, id) == ready /\ id # 0

destroy_enclave ==
    /\ IF CanDestroy(enclave_initialized, enclave_id)
       THEN /\ enclave_id' = 0
            /\ enclave_initialized' = FALSE
       ELSE UNCHANGED <<enclave_id, enclave_initialized>>
    /\ host_op' = HostOp("destroy_enclave", APP_SUCCESS, <<>>, FALSE, FALSE)
    /\ UNCHANGED <<created, vmvars, proofvars, sealvars, concvars>>

\* the tail of the four operations: ret != SGX_SUCCESS || enclave_ret !=
\* SGX_SUCCESS gives APP_ERROR_ENCLAVE_CALL
AfterEcall(op, ecall, bytecode_empty, input_empty) ==
    \E ok \in BOOLEAN :
        host_op' = HostOp(op, IF ok THEN APP_SUCCESS ELSE APP_ERROR_ENCLAVE_CALL,
                          <<ecall>>, bytecode_empty, input_empty)

\* SGXSmartContractApp::execute_contract
App_execute_contract ==
    /\ \E bytecode_empty, input_empty \in BOOLEAN :
         IF ~enclave_initialized
         THEN host_op' = HostOp("execute_contract", APP_ERROR_ENCLAVE_INIT,
                                <<>>, bytecode_empty, input_empty)
         ELSE IF bytecode_empty
         THEN host_op' = HostOp("execute_contract", APP_ERROR_INVALID_PARAM,
                                <<>>, bytecode_empty, input_empty)
         ELSE AfterEcall("execute_contract", "ecall_execute_contract",
                         bytecode_empty, input_empty)
    /\ UNCHANGED <<enclave_id, enclave_initialized, created, vmvars,
                   proofvars, sealvars, concvars>>

generate_execution_proof ==
    /\ \E bytecode_empty, input_empty \in BOOLEAN :
         IF ~enclave_initialized
         THEN host_op' = HostOp("generate_execution_proof",
                                APP_ERROR_ENCLAVE_INIT, <<>>,
                                bytecode_empty, input_empty)
         ELSE AfterEcall("generate_execution_proof", "ecall_generate_proof",
                         bytecode_empty, input_empty)
    /\ UNCHANGED <<enclave_id, enclave_initialized, created, vmvars,
                   proofvars, sealvars, concvars>>

get_enclave_measurement ==
    /\ IF ~enclave_initialized
       THEN host_op' = HostOp("get_enclave_measurement",
                              APP_ERROR_ENCLAVE_INIT, <<>>, FALSE, FALSE)
       ELSE AfterEcall("get_enclave_measurement", "ecall_get_measurement",
                       FALSE, FALSE)
    /\ UNCHANGED <<enclave_id, enclave_initialized, created, vmvars,
                   proofvars, sealvars, concvars>>

create_attestation_report ==
    /\ \E user_data_empty \in BOOLEAN :
         IF ~enclave_initialized
         THEN host_op' = HostOp("create_attestation_report",
                                APP_ERROR_ENCLAVE_INIT, <<>>,
                                FALSE, user_data_empty)
         ELSE AfterEcall("create_attestation_report", "ecall_create_report",
                         FALSE, user_data_empty)
    /\ UNCHANGED <<enclave_id, enclave_initialized, created, vmvars,
                   proofvars, sealvars, concvars>>

HostNext ==
    \/ initialize_enclave
    \/ destroy_enclave
    \/ App_execute_contract
    \/ generate_execution_proof
    \/ get_enclave_measurement
    \/ create_attestation_report

HostSpec == Init /\ [][HostNext]_vars

\* the operations that need the enclave
EnclaveOps ==
    {"execute_contract", "generate_execution_proof",
     "get_enclave_measurement", "create_attestation_report"}

\* C33: host lifecycle: after destroy_enclave the enclave is not ready; as
\* long as it is not ready, execute_contract, generate_execution_proof,
\* get_enclave_measurement and create_attestation_report return
\* APP_ERROR_ENCLAVE_INIT without a boundary call; it becomes ready again
\* only by an initialize_enclave that succeeds.
C33_HostLifecycle ==
    /\ [](host_op.op = "destroy_enclave" => ~is_enclave_ready)
    /\ []((~is_enclave_ready /\ host_op.op \in EnclaveOps)
            => /\ host_op.status = APP_ERROR_ENCLAVE_INIT
               /\ host_op.ecalls = <<>>)
    /\ [][(~is_enclave_ready /\ is_enclave_ready')
            => /\ host_op'.op = "initialize_enclave"
               /\ host_op'.status = APP_SUCCESS]_vars

\* C33 witness: an enclave was initialised and destroyed, and an operation
\* was then refused
C33_Witness ==
    /\ created > 0
    /\ enclave_id = 0
    /\ ~is_enclave_ready
    /\ host_op.op = "generate_execution_proof"
    /\ host_op.status = APP_ERROR_ENCLAVE_INIT

\* C34: on an initialised enclave, execute_contract and
\* generate_execution_proof of a contract whose bytecode is empty return
\* APP_ERROR_INVALID_PARAM before any boundary call.
C34_EmptyContract ==
    (is_enclave_ready /\ host_op.bytecode_empty
        /\ host_op.op \in {"execute_contract", "generate_execution_proof"})
        => /\ host_op.status = APP_ERROR_INVALID_PARAM
           /\ host_op.ecalls = <<>>


(***************************************************************************)
(* Threads inside ecall_verify_contract_execution at the same time.  The   *)
(* context is a local of the call (enclave.cpp, lines 87-94); g_verifier   *)
(* is a global that no lock guards, and verifier->execution_counter++ is a *)
(* read followed by a write.                                               *)
(***************************************************************************)
\* programs the concurrent invocations run: add-and-halt, HALT alone and a
\* division by zero
ConcurrentPrograms ==
    { Concat(<<Push(10), Push(20), <<OP_ADD>>, <<OP_HALT>>>>),
      <<OP_HALT>>,
      Concat(<<Push(5), Push(0), <<OP_DIV>>, <<OP_HALT>>>>) }

\* context.gas_limit = 1000000: more than any of these programs uses
ECALL_GAS_LIMIT == BigGas

\* the thread enters; a verifier that is not initialized, or a code the
\* validator rejects, sends it back before the interpreter
Enter(t) ==
    /\ tpc[t] = "outside"
    /\ IF NotInitialized(initialized)
       THEN /\ tpc' = [tpc EXCEPT ![t] = "rejected"]
            /\ UNCHANGED local
       ELSE \E c \in ConcurrentPrograms :
               IF validate_contract_code(c) # SGX_SUCCESS
               THEN /\ tpc' = [tpc EXCEPT ![t] = "rejected"]
                    /\ UNCHANGED local
               ELSE /\ tpc' = [tpc EXCEPT ![t] = "execute"]
                    /\ local' = [local EXCEPT ![t] =
                                    [NoContext EXCEPT
                                        !.code = c,
                                        !.state = CONTRACT_STATE_RUNNING]]
    /\ UNCHANGED <<tmp, vmvars, proofvars, sealvars, appvars>>

\* one iteration of the interpreter loop on the thread's own context, or
\* the end of the loop
Execute(t) ==
    /\ tpc[t] = "execute"
    /\ LET s        == local[t]
           opcode   == s.code[s.pc + 1]
           gas_cost == get_opcode_gas_cost(opcode)
       IN  IF ~(s.state = CONTRACT_STATE_RUNNING /\ s.pc < Len(s.code))
           THEN /\ tpc' = [tpc EXCEPT ![t] = "load"]
                /\ UNCHANGED local
           ELSE /\ UNCHANGED tpc
                /\ IF ~check_gas(s.gas_used, ECALL_GAS_LIMIT, gas_cost)
                   THEN local' = [local EXCEPT
                                     ![t].state = CONTRACT_STATE_OUT_OF_GAS]
                   ELSE \E g \in GarbageChoices :
                          LET r == execute_instruction(s.code, s.pc, s.stack,
                                                       s.memory, s.state,
                                                       opcode, g)
                          IN  local' = [local EXCEPT ![t] =
                                 IF r.ret # SGX_SUCCESS
                                 THEN [s EXCEPT !.state = CONTRACT_STATE_ERROR,
                                                !.pc = r.pc,
                                                !.stack = r.stack,
                                                !.memory = r.memory]
                                 ELSE [s EXCEPT
                                         !.pc = r.pc + 1,
                                         !.gas_used = consume_gas(s.gas_used,
                                                          ECALL_GAS_LIMIT, gas_cost),
                                         !.state = IF opcode = OP_HALT
                                                   THEN CONTRACT_STATE_COMPLETED
                                                   ELSE r.state,
                                         !.stack = r.stack,
                                         !.memory = r.memory]]
    /\ UNCHANGED <<tmp, vmvars, proofvars, sealvars, appvars>>

\* verifier->execution_counter++, the read
Load(t) ==
    /\ tpc[t] = "load"
    /\ tmp' = [tmp EXCEPT ![t] = execution_counter]
    /\ tpc' = [tpc EXCEPT ![t] = "store"]
    /\ UNCHANGED <<local, vmvars, proofvars, sealvars, appvars>>

\* verifier->execution_counter++, the write; the call returns
Store(t) ==
    /\ tpc[t] = "store"
    /\ execution_counter' = tmp[t] + 1
    /\ tpc' = [tpc EXCEPT ![t] = "done"]
    /\ UNCHANGED <<tmp, local, initialized, phase, ret, ctx, master_key, host,
                   audit, input_data_null, proofvars, sealvars, appvars>>

ConcNext ==
    \/ InitVerifier
    \/ \E t \in Threads : Enter(t)
    \/ \E t \in Threads : Execute(t)
    \/ \E t \in Threads : Load(t)
    \/ \E t \in Threads : Store(t)

ConcSpec == Init /\ [][ConcNext]_vars

\* the invocations that ran the interpreter and have returned
Done == {t \in Threads : tpc[t] = "done"}

\* C39: no lost counter update: once every invocation has returned,
\* execution_counter is higher by the number of invocations that ran the
\* interpreter, and each thread's context is what its own execution of its
\* own code leaves.
C39_NoLostUpdate ==
    (\A t \in Threads : tpc[t] \in {"done", "rejected"})
        => /\ execution_counter = Cardinality(Done)
           /\ \A t \in Done :
                \E g \in GarbageChoices :
                    LET s == Run(local[t].code, ECALL_GAS_LIMIT, g)
                    IN  /\ local[t].state = s.state
                        /\ local[t].stack = s.stack
                        /\ local[t].gas_used = s.gas_used

=============================================================================
